---- MODULE Spec2Model ----
(***************************************************************************)
(* A model of FriendlyErrorsWebpackPlugin (src/src/friendly-errors-plugin.js). *)
(*                                                                         *)
(* The state is the set of plugin instances (their fields as the           *)
(* constructor leaves them, previousEndTimes as the reports change it),    *)
(* the subscriptions each instance holds on its compiler's hooks, and the  *)
(* calls the handlers of the latest event made on the output module and on *)
(* the onErrors callback.                                                  *)
(*                                                                         *)
(* The modules the plugin requires but that are not part of the sources    *)
(* at hand (./utils, ./core/transformErrors, ./core/formatErrors,          *)
(* ./output and the built-in transformers and formatters) are modelled     *)
(* from the specification's sections 4.1, 4.2, 4.4 and 4.5.                *)
(*                                                                         *)
(* Only the compiler.hooks branch of apply is modelled: line 10 requires   *)
(* webpack/lib/stats/DefaultStatsFactoryPlugin, which exists from webpack 5 *)
(* on, where every compiler has hooks and compiler.plugin is gone.         *)
(***************************************************************************)
EXTENDS Integers, Sequences, FiniteSets, TLC

VARIABLES
  options,    \* options[i]: the argument instance i was constructed with
  plugin,     \* plugin[i]: the fields of instance i
  hooks,      \* hooks[i]: what instance i has tapped on its compiler
  seenEnds,   \* seenEnds[i]: end timestamp per index of the stats of i's previous report
  solo,       \* solo[i]: previousEndTimes of i had only its own events happened
  lastEvent,  \* the latest event and what its handlers did
  arg,        \* the input a function is applied to (SpecSelect, SpecExtract)
  ret         \* its result

vars == <<options, plugin, hooks, seenEnds, solo, lastEvent, arg, ret>>

(***************************************************************************)
(* Bounds                                                                  *)
(***************************************************************************)
\* compilations a compiler runs (each leaves one more done subscription)
MaxTaps == 2
\* the same, where the compilations are few and the stats many
MaxRebuilds == 3
\* latest timestamp of a stats object
MaxTime == 2
\* longest list getMaxSeverityErrors or extractErrorsFromStats is applied to
MaxLen == 3
\* greatest severity of an enriched error handed to getMaxSeverityErrors
MaxSeverity == 2

(***************************************************************************)
(* Generic helpers                                                         *)
(***************************************************************************)
Has(r, f) == f \in DOMAIN r

Max(a, b) == IF a > b THEN a ELSE b

\* the object {} : no own property
EmptyObject == [k \in {} |-> 0]

SeqsUpTo(S, n) == UNION {[1..k -> S] : k \in 0..n}

\* s is t with some elements left out, the order kept
RECURSIVE IsSubsequence(_, _)
IsSubsequence(s, t) ==
  IF s = <<>> THEN TRUE
  ELSE IF t = <<>> THEN FALSE
  ELSE IF Head(s) = Head(t) THEN IsSubsequence(Tail(s), Tail(t))
  ELSE IsSubsequence(s, Tail(t))

(***************************************************************************)
(* ./utils                                                                 *)
(***************************************************************************)
\* concat(base, extra): extra is dropped when it is null or undefined
concat(base, opts, field) == IF Has(opts, field) THEN base \o opts[field] ELSE base

\* uniqueBy(arr, error => error.message): the first record of each message
RECURSIVE uniqueBy(_, _)
uniqueBy(arr, seen) ==
  IF arr = <<>> THEN <<>>
  ELSE IF Head(arr).message \in seen THEN uniqueBy(Tail(arr), seen)
  ELSE <<Head(arr)>> \o uniqueBy(Tail(arr), seen \cup {Head(arr).message})

(***************************************************************************)
(* Raw errors and the transformer chain (./core/transformErrors)           *)
(***************************************************************************)
\* What a raw error looks like to the transformers: the shape of its message.
Shapes == {"syntax", "module-not-found", "lint", "custom", "other"}

defaultTransformers == <<"babelSyntax", "moduleNotFound", "esLintError">>

defaultFormatters == <<"moduleNotFound", "eslintError", "defaultError">>

\* The shape each transformer recognizes, the class name and the severity it
\* attaches: syntax > module-not-found > lint > generic, all positive.
Recognizes ==
  [babelSyntax    |-> "syntax",
   moduleNotFound |-> "module-not-found",
   esLintError    |-> "lint",
   t1             |-> "custom",
   t2             |-> "custom"]

ClassName ==
  [babelSyntax    |-> "syntax-error",
   moduleNotFound |-> "module-not-found",
   esLintError    |-> "lint-error",
   t1             |-> "custom-error",
   t2             |-> "custom2-error"]

ClassSeverity ==
  [babelSyntax |-> 4, moduleNotFound |-> 3, esLintError |-> 2, t1 |-> 5, t2 |-> 6]

GenericSeverity == 1

\* classify: the first transformer that recognizes the raw error enriches it;
\* when every transformer declines, the generic record.
RECURSIVE classify(_, _)
classify(raw, transformers) ==
  IF transformers = <<>>
  THEN [name |-> "generic", message |-> raw.message, severity |-> GenericSeverity]
  ELSE IF Recognizes[Head(transformers)] = raw.shape
  THEN [name     |-> ClassName[Head(transformers)],
        message  |-> raw.message,
        severity |-> ClassSeverity[Head(transformers)]]
  ELSE classify(raw, Tail(transformers))

transformErrors(errors, transformers) ==
  [k \in 1..Len(errors) |-> classify(errors[k], transformers)]

(***************************************************************************)
(* The formatter chain (./core/formatErrors)                               *)
(***************************************************************************)
Formats ==
  [moduleNotFound |-> "module-not-found",
   eslintError    |-> "lint-error",
   f1             |-> "custom-error",
   f2             |-> "custom2-error"]

Header ==
  [moduleNotFound |-> "This dependency was not found: ",
   eslintError    |-> "Module Warning: ",
   f1             |-> "Custom: ",
   f2             |-> "Custom2: "]

\* render: the first formatter that matches the record renders it; the default
\* formatter matches every record.
RECURSIVE render(_, _, _)
render(e, formatters, severity) ==
  IF formatters = <<>> \/ Head(formatters) = "defaultError"
  THEN severity \o "  in " \o e.message
  ELSE IF Formats[Head(formatters)] = e.name
  THEN Header[Head(formatters)] \o e.message
  ELSE render(e, Tail(formatters), severity)

formatErrors(errors, formatters, severity) ==
  [k \in 1..Len(errors) |-> render(errors[k], formatters, severity)]

(***************************************************************************)
(* Severity selection                                                      *)
(***************************************************************************)
\* collection.reduce((res, curr) => curr[p] > res ? curr[p] : res, 0)
RECURSIVE reduceMax(_, _, _)
reduceMax(collection, propertyName, res) ==
  IF collection = <<>> THEN res
  ELSE reduceMax(Tail(collection), propertyName,
                 IF Head(collection)[propertyName] > res
                 THEN Head(collection)[propertyName] ELSE res)

\* mutant: the comparison is dropped, the last record wins
RECURSIVE reduceLast(_, _, _)
reduceLast(collection, propertyName, res) ==
  IF collection = <<>> THEN res
  ELSE reduceLast(Tail(collection), propertyName, Head(collection)[propertyName])

getMaxIntLast(collection, propertyName) == reduceLast(collection, propertyName, 0)

getMaxInt(collection, propertyName) == reduceMax(collection, propertyName, 0)

getMaxSeverityErrors(errors) ==
  LET maxSeverity == getMaxInt(errors, "severity")
  IN  SelectSeq(errors, LAMBDA e : e.severity = maxSeverity)

(***************************************************************************)
(* Compilations and stats                                                  *)
(***************************************************************************)
getErrors(compilation) == compilation.errors

getWarnings(compilation) == compilation.warnings

\* mutant: the records are returned as the compilation gives them
extractErrorsFromStatsAll(stats, type, compilation) ==
  IF type = "warnings" THEN getWarnings(compilation) ELSE getErrors(compilation)

extractErrorsFromStats(stats, type, compilation) ==
  LET errors == IF type = "warnings" THEN getWarnings(compilation)
                                     ELSE getErrors(compilation)
  IN  uniqueBy(errors, {})

\* stats.stats is truthy on the result of a multi-target run only
isMultiStats(stats) == Has(stats, "stats")

(***************************************************************************)
(* Calls on ./output and on the onErrors callback                          *)
(***************************************************************************)
ClearCall == [op |-> "clearConsole"]

TitleCall(severity, title, subtitle) ==
  [op |-> "title", severity |-> severity, title |-> title, subtitle |-> subtitle]

InfoCall(message) == [op |-> "info", text |-> message]

NoteCall(note) == [op |-> "note", text |-> note]

\* output.log(chunk); output.log() writes a blank line
LogCall(chunk) == [op |-> "log", text |-> chunk]

OnErrorsCall(severity, topErrors) ==
  [op |-> "onErrors", severity |-> severity, errors |-> topErrors]

\* the line output.title writes: the label, two blanks, the subtitle
TitleLine(call) == call.title \o "  " \o call.subtitle

toUpperCase == [error |-> "ERROR", warning |-> "WARNING"]

(***************************************************************************)
(* FriendlyErrorsWebpackPlugin                                             *)
(***************************************************************************)
\* mutant: clearConsole is off unless asked for
constructorClearOff(opts) ==
  [compilationSuccessInfo |->
     IF Has(opts, "compilationSuccessInfo") THEN opts.compilationSuccessInfo
                                            ELSE EmptyObject,
   onErrors           |-> Has(opts, "onErrors"),
   shouldClearConsole |-> IF ~Has(opts, "clearConsole") THEN FALSE
                                                        ELSE opts.clearConsole,
   formatters         |-> concat(defaultFormatters, opts, "additionalFormatters"),
   transformers       |-> concat(defaultTransformers, opts, "additionalTransformers"),
   previousEndTimes   |-> EmptyObject]

\* mutant: the caller's formatters and transformers come before the built-in ones
constructorPrepend(opts) ==
  [compilationSuccessInfo |->
     IF Has(opts, "compilationSuccessInfo") THEN opts.compilationSuccessInfo
                                            ELSE EmptyObject,
   onErrors           |-> Has(opts, "onErrors"),
   shouldClearConsole |-> IF ~Has(opts, "clearConsole") THEN TRUE
                                                        ELSE opts.clearConsole,
   formatters         |-> IF Has(opts, "additionalFormatters")
                          THEN opts.additionalFormatters \o defaultFormatters
                          ELSE defaultFormatters,
   transformers       |-> IF Has(opts, "additionalTransformers")
                          THEN opts.additionalTransformers \o defaultTransformers
                          ELSE defaultTransformers,
   previousEndTimes   |-> EmptyObject]

constructor(opts) ==
  [compilationSuccessInfo |->
     IF Has(opts, "compilationSuccessInfo") THEN opts.compilationSuccessInfo
                                            ELSE EmptyObject,
   onErrors           |-> Has(opts, "onErrors"),
   shouldClearConsole |-> IF ~Has(opts, "clearConsole") THEN TRUE
                                                        ELSE opts.clearConsole,
   formatters         |-> concat(defaultFormatters, opts, "additionalFormatters"),
   transformers       |-> concat(defaultTransformers, opts, "additionalTransformers"),
   previousEndTimes   |-> EmptyObject]

clearConsole(this) == IF this.shouldClearConsole THEN <<ClearCall>> ELSE <<>>

\* this.previousEndTimes[statsIndex] = endTime
putEndTime(previousEndTimes, statsIndex, endTime) ==
  [k \in DOMAIN previousEndTimes \cup {statsIndex} |->
     IF k = statsIndex THEN endTime ELSE previousEndTimes[k]]

\* mutant: the end timestamp is recorded for single-target stats too
getStatsCompileTimeUnindexed(previousEndTimes, stats, indexed, statsIndex) ==
  IF indexed /\ Has(previousEndTimes, statsIndex)
             /\ previousEndTimes[statsIndex] = stats.endTime
  THEN [time |-> 0, previousEndTimes |-> previousEndTimes]
  ELSE [time |-> stats.endTime - stats.startTime,
        previousEndTimes |-> putEndTime(previousEndTimes, statsIndex, stats.endTime)]

\* The time, and previousEndTimes as the call leaves it. indexed: statsIndex
\* is not undefined.
getStatsCompileTime(previousEndTimes, stats, indexed, statsIndex) ==
  IF indexed /\ Has(previousEndTimes, statsIndex)
             /\ previousEndTimes[statsIndex] = stats.endTime
  THEN [time |-> 0, previousEndTimes |-> previousEndTimes]
  ELSE [time |-> stats.endTime - stats.startTime,
        previousEndTimes |->
          IF indexed THEN putEndTime(previousEndTimes, statsIndex, stats.endTime)
                     ELSE previousEndTimes]

\* stats.stats.reduce((time, stats, index) => Math.max(time, ...), 0), from
\* element `index` (0-based) on
RECURSIVE reduceTime(_, _, _, _)
reduceTime(previousEndTimes, subs, index, time) ==
  IF index >= Len(subs) THEN [time |-> time, previousEndTimes |-> previousEndTimes]
  ELSE LET r == getStatsCompileTime(previousEndTimes, subs[index + 1], TRUE, index)
       IN  reduceTime(r.previousEndTimes, subs, index + 1, Max(time, r.time))

getMultiStatsCompileTime(previousEndTimes, stats) ==
  reduceTime(previousEndTimes, stats.stats, 0, 0)

\* mutant: the blank line before the notes is left out
infoCallsNoBlank(info) ==
  (IF Has(info, "messages")
   THEN [k \in 1..Len(info.messages) |-> InfoCall(info.messages[k])] ELSE <<>>)
  \o
  (IF Has(info, "notes")
   THEN [k \in 1..Len(info.notes) |-> NoteCall(info.notes[k])]
   ELSE <<>>)

infoCalls(info) ==
  (IF Has(info, "messages")
   THEN [k \in 1..Len(info.messages) |-> InfoCall(info.messages[k])] ELSE <<>>)
  \o
  (IF Has(info, "notes")
   THEN <<LogCall("")>> \o [k \in 1..Len(info.notes) |-> NoteCall(info.notes[k])]
   ELSE <<>>)

displaySuccess(this, stats) ==
  LET r == IF isMultiStats(stats)
           THEN getMultiStatsCompileTime(this.previousEndTimes, stats)
           ELSE getStatsCompileTime(this.previousEndTimes, stats, FALSE, 0)
  IN  [calls |->
         <<TitleCall("success", "DONE",
                     "Compiled successfully in " \o ToString(r.time) \o "ms")>>
         \o infoCalls(this.compilationSuccessInfo),
       previousEndTimes |-> r.previousEndTimes]

\* mutant: the noun is always plural
subtitleOfPlural(severity, nbErrors) ==
  IF severity = "error"
  THEN "Failed to compile with " \o ToString(nbErrors) \o " " \o severity \o "s"
  ELSE "Compiled with " \o ToString(nbErrors) \o " " \o severity \o "s"

subtitleOf(severity, nbErrors) ==
  IF severity = "error"
  THEN "Failed to compile with " \o ToString(nbErrors) \o " " \o severity
         \o (IF nbErrors = 1 THEN "" ELSE "s")
  ELSE "Compiled with " \o ToString(nbErrors) \o " " \o severity
         \o (IF nbErrors = 1 THEN "" ELSE "s")

\* mutant: the title counts the records before the severity selection
displayErrorsRawCount(this, errors, severity) ==
  LET processedErrors == transformErrors(errors, this.transformers)
      topErrors == getMaxSeverityErrors(processedErrors)
      nbErrors == Len(processedErrors)
      chunks == formatErrors(topErrors, this.formatters, severity)
  IN  <<TitleCall(severity, toUpperCase[severity], subtitleOf(severity, nbErrors))>>
      \o (IF this.onErrors THEN <<OnErrorsCall(severity, topErrors)>> ELSE <<>>)
      \o [k \in 1..Len(chunks) |-> LogCall(chunks[k])]

\* mutant: onErrors gets every processed record
displayErrorsAllToCallback(this, errors, severity) ==
  LET processedErrors == transformErrors(errors, this.transformers)
      topErrors == getMaxSeverityErrors(processedErrors)
      nbErrors == Len(topErrors)
      chunks == formatErrors(topErrors, this.formatters, severity)
  IN  <<TitleCall(severity, toUpperCase[severity], subtitleOf(severity, nbErrors))>>
      \o (IF this.onErrors THEN <<OnErrorsCall(severity, processedErrors)>> ELSE <<>>)
      \o [k \in 1..Len(chunks) |-> LogCall(chunks[k])]

\* mutant: onErrors is called after the blocks are written
displayErrorsCallbackLast(this, errors, severity) ==
  LET processedErrors == transformErrors(errors, this.transformers)
      topErrors == getMaxSeverityErrors(processedErrors)
      nbErrors == Len(topErrors)
      chunks == formatErrors(topErrors, this.formatters, severity)
  IN  <<TitleCall(severity, toUpperCase[severity], subtitleOf(severity, nbErrors))>>
      \o [k \in 1..Len(chunks) |-> LogCall(chunks[k])]
      \o (IF this.onErrors THEN <<OnErrorsCall(severity, topErrors)>> ELSE <<>>)

displayErrors(this, errors, severity) ==
  LET processedErrors == transformErrors(errors, this.transformers)
      topErrors == getMaxSeverityErrors(processedErrors)
      nbErrors == Len(topErrors)
      chunks == formatErrors(topErrors, this.formatters, severity)
  IN  <<TitleCall(severity, toUpperCase[severity], subtitleOf(severity, nbErrors))>>
      \o (IF this.onErrors THEN <<OnErrorsCall(severity, topErrors)>> ELSE <<>>)
      \o [k \in 1..Len(chunks) |-> LogCall(chunks[k])]

\* mutant: the warning branch is tried before the error branch
doneFnWarningsFirst(this, stats, compilation) ==
  LET hasErrors == Len(getErrors(compilation)) > 0
      hasWarnings == Len(getWarnings(compilation)) > 0
  IN  IF ~hasErrors /\ ~hasWarnings
      THEN LET r == displaySuccess(this, stats)
           IN  [calls |-> clearConsole(this) \o r.calls,
                previousEndTimes |-> r.previousEndTimes]
      ELSE IF hasWarnings
      THEN [calls |-> clearConsole(this) \o
                      displayErrors(this,
                        extractErrorsFromStats(stats, "warnings", compilation), "warning"),
            previousEndTimes |-> this.previousEndTimes]
      ELSE [calls |-> clearConsole(this) \o
                      displayErrors(this,
                        extractErrorsFromStats(stats, "errors", compilation), "error"),
            previousEndTimes |-> this.previousEndTimes]

\* mutant: the error and warning branches record the end timestamps as well
doneFnErrorsRecord(this, stats, compilation) ==
  LET hasErrors == Len(getErrors(compilation)) > 0
      hasWarnings == Len(getWarnings(compilation)) > 0
  IN  IF ~hasErrors /\ ~hasWarnings
      THEN LET r == displaySuccess(this, stats)
           IN  [calls |-> clearConsole(this) \o r.calls,
                previousEndTimes |-> r.previousEndTimes]
      ELSE IF hasErrors
      THEN [calls |-> clearConsole(this) \o
                      displayErrors(this,
                        extractErrorsFromStats(stats, "errors", compilation), "error"),
            previousEndTimes |-> displaySuccess(this, stats).previousEndTimes]
      ELSE [calls |-> clearConsole(this) \o
                      displayErrors(this,
                        extractErrorsFromStats(stats, "warnings", compilation), "warning"),
            previousEndTimes |-> displaySuccess(this, stats).previousEndTimes]

\* The calls doneFn makes, and previousEndTimes as it leaves it.
doneFn(this, stats, compilation) ==
  LET hasErrors == Len(getErrors(compilation)) > 0
      hasWarnings == Len(getWarnings(compilation)) > 0
  IN  IF ~hasErrors /\ ~hasWarnings
      THEN LET r == displaySuccess(this, stats)
           IN  [calls |-> clearConsole(this) \o r.calls,
                previousEndTimes |-> r.previousEndTimes]
      ELSE IF hasErrors
      THEN [calls |-> clearConsole(this) \o
                      displayErrors(this,
                        extractErrorsFromStats(stats, "errors", compilation), "error"),
            previousEndTimes |-> this.previousEndTimes]
      ELSE [calls |-> clearConsole(this) \o
                      displayErrors(this,
                        extractErrorsFromStats(stats, "warnings", compilation), "warning"),
            previousEndTimes |-> this.previousEndTimes]

invalidFn(this) == clearConsole(this) \o <<TitleCall("info", "WAIT", "Compiling...")>>

\* mutant: one previousEndTimes for the module, shared by the instances
setPreviousEndTimesShared(pl, i, previousEndTimes) ==
  [j \in DOMAIN pl |-> [pl[j] EXCEPT !.previousEndTimes = previousEndTimes]]

\* previousEndTimes belongs to the instance (this.previousEndTimes, line 36)
setPreviousEndTimes(pl, i, previousEndTimes) ==
  [pl EXCEPT ![i].previousEndTimes = previousEndTimes]

(***************************************************************************)
(* The host: one compiler per instance. A compiler runs afterCompile, then *)
(* done, for each compilation; invalid comes whenever a source changes.    *)
(***************************************************************************)
\* The end timestamp per index of a stats object, as a report shows them.
endsOf(stats) ==
  IF isMultiStats(stats)
  THEN [k \in 0..(Len(stats.stats) - 1) |-> stats.stats[k + 1].endTime]
  ELSE EmptyObject

\* The host calls the done subscriptions in the order they were tapped; each
\* calls doneFn with the compilation its afterCompile callback closed over.
RECURSIVE callDoneTaps(_, _, _, _)
callDoneTaps(this, stats, taps, runs) ==
  IF taps = <<>> THEN [runs |-> runs, previousEndTimes |-> this.previousEndTimes]
  ELSE LET r == doneFn(this, stats, Head(taps))
       IN  callDoneTaps([this EXCEPT !.previousEndTimes = r.previousEndTimes],
                        stats, Tail(taps),
                        Append(runs, [handler |-> "doneFn",
                                      compilation |-> Head(taps),
                                      calls |-> r.calls]))

NoStats == EmptyObject

\* apply(compiler): taps afterCompile and invalid
Apply(i) ==
  /\ ~hooks[i].applied
  /\ hooks' = [hooks EXCEPT ![i].applied = TRUE]
  /\ lastEvent' = [event |-> "apply", inst |-> i, stats |-> NoStats, runs |-> <<>>]
  /\ UNCHANGED <<options, plugin, seenEnds, solo, arg, ret>>

\* the afterCompile callback: taps done once more, closing over compilation
AfterCompile(i, compilation, maxTaps) ==
  /\ hooks[i].applied
  /\ ~hooks[i].compiled
  /\ Len(hooks[i].done) < maxTaps
  /\ hooks' = [hooks EXCEPT ![i].done = Append(@, compilation),
                            ![i].compiled = TRUE]
  /\ lastEvent' = [event |-> "afterCompile", inst |-> i, stats |-> NoStats,
                   runs |-> <<>>]
  /\ UNCHANGED <<options, plugin, seenEnds, solo, arg, ret>>

\* the done event of the compilation afterCompile announced
Done(i, stats) ==
  /\ hooks[i].applied
  /\ hooks[i].compiled
  /\ LET r == callDoneTaps(plugin[i], stats, hooks[i].done, <<>>)
     IN  /\ plugin' = setPreviousEndTimes(plugin, i, r.previousEndTimes)
         /\ lastEvent' = [event |-> "done", inst |-> i, stats |-> stats,
                          runs |-> r.runs]
  /\ hooks' = [hooks EXCEPT ![i].compiled = FALSE]
  /\ seenEnds' = [seenEnds EXCEPT ![i] = IF isMultiStats(stats) THEN endsOf(stats)
                                                                 ELSE @]
  /\ solo' = [solo EXCEPT ![i] =
                callDoneTaps([plugin[i] EXCEPT !.previousEndTimes = solo[i]],
                             stats, hooks[i].done, <<>>).previousEndTimes]
  /\ UNCHANGED <<options, arg, ret>>

\* the invalid event
Invalid(i) ==
  /\ hooks[i].applied
  /\ lastEvent' = [event |-> "invalid", inst |-> i, stats |-> NoStats,
                   runs |-> <<[handler |-> "invalidFn",
                               calls |-> invalidFn(plugin[i])]>>]
  /\ UNCHANGED <<options, plugin, hooks, seenEnds, solo, arg, ret>>

(***************************************************************************)
(* Inputs                                                                  *)
(***************************************************************************)
syn == [message |-> "m1", shape |-> "syntax"]
modA == [message |-> "m2", shape |-> "module-not-found"]
modB == [message |-> "m3", shape |-> "module-not-found"]
lintA == [message |-> "m4", shape |-> "lint"]
lintB == [message |-> "m5", shape |-> "lint"]
genA == [message |-> "m6", shape |-> "other"]
cusA == [message |-> "m7", shape |-> "custom"]

Clean == [errors |-> <<>>, warnings |-> <<>>]

Compilations ==
  {Clean,
   [errors |-> <<syn>>,            warnings |-> <<>>],
   [errors |-> <<syn, modA, syn>>, warnings |-> <<lintA>>],
   [errors |-> <<modA, modB>>,     warnings |-> <<lintA, lintB>>],
   [errors |-> <<cusA, syn>>,      warnings |-> <<>>],
   [errors |-> <<>>,               warnings |-> <<lintA>>],
   [errors |-> <<>>,               warnings |-> <<lintA, lintA, lintB>>],
   [errors |-> <<>>,               warnings |-> <<genA, lintA>>]}

Times == 0..MaxTime

SubStats ==
  {r \in [startTime : Times, endTime : Times] : r.startTime <= r.endTime}

MainStats == {[startTime |-> 0, endTime |-> MaxTime],
              [startTime |-> MaxTime, endTime |-> MaxTime]}

MultiStats == {[stats |-> <<a, b>>] : a \in SubStats, b \in SubStats}

ClearConsoleOptions ==
  {EmptyObject, [clearConsole |-> TRUE], [clearConsole |-> FALSE]}

OnErrorsOptions == {EmptyObject, [onErrors |-> TRUE]}

SuccessInfoOptions ==
  {EmptyObject,
   [compilationSuccessInfo |-> [messages |-> <<"i1", "i2">>]],
   [compilationSuccessInfo |-> [notes |-> <<"n1", "n2">>]],
   [compilationSuccessInfo |-> [messages |-> <<"i1">>, notes |-> <<"n1", "n2">>]]}

AdditionalOptions ==
  {EmptyObject,
   [additionalFormatters |-> <<"f1">>, additionalTransformers |-> <<"t1">>],
   [additionalFormatters |-> <<"f2", "f1">>, additionalTransformers |-> <<"t2", "t1">>]}

Options ==
  {a @@ b @@ c @@ d : a \in ClearConsoleOptions, b \in OnErrorsOptions,
                      c \in SuccessInfoOptions, d \in AdditionalOptions}

(***************************************************************************)
(* Specifications                                                          *)
(***************************************************************************)
InitOver(Insts, Opts, Args) ==
  /\ options \in [Insts -> Opts]
  /\ plugin = [i \in Insts |-> constructor(options[i])]
  /\ hooks = [i \in Insts |-> [applied |-> FALSE, compiled |-> FALSE, done |-> <<>>]]
  /\ seenEnds = [i \in Insts |-> EmptyObject]
  /\ solo = [i \in Insts |-> EmptyObject]
  /\ lastEvent = [event |-> "none", inst |-> "none", stats |-> NoStats, runs |-> <<>>]
  /\ arg \in Args
  /\ ret = <<>>

\* One instance, any options, on a single-target compiler.
Init == InitOver({"p1"}, Options, {<<>>})

Next ==
  \/ \E i \in DOMAIN plugin : Apply(i)
  \/ \E i \in DOMAIN plugin : \E c \in Compilations : AfterCompile(i, c, MaxTaps)
  \/ \E i \in DOMAIN plugin : \E s \in MainStats : Done(i, s)
  \/ \E i \in DOMAIN plugin : Invalid(i)

Spec == Init /\ [][Next]_vars

\* One instance with default options on a multi-target compiler.
TimeCompilations == {Clean, [errors |-> <<syn>>, warnings |-> <<>>]}

InitTime == InitOver({"p1"}, {EmptyObject}, {<<>>})

NextTime ==
  \/ \E i \in DOMAIN plugin : Apply(i)
  \/ \E i \in DOMAIN plugin : \E c \in TimeCompilations : AfterCompile(i, c, MaxRebuilds)
  \/ \E i \in DOMAIN plugin : \E s \in MultiStats : Done(i, s)
  \/ \E i \in DOMAIN plugin : Invalid(i)

SpecTime == InitTime /\ [][NextTime]_vars

\* Two instances with default options, each on its own multi-target compiler.
EdgeStats == {[startTime |-> 0, endTime |-> 1], [startTime |-> 0, endTime |-> MaxTime]}

TwoStats == {[stats |-> <<a, b>>] : a \in EdgeStats, b \in EdgeStats}

InitTwo == InitOver({"p1", "p2"}, {EmptyObject}, {<<>>})

NextTwo ==
  \/ \E i \in DOMAIN plugin : Apply(i)
  \/ \E i \in DOMAIN plugin : AfterCompile(i, Clean, MaxRebuilds)
  \/ \E i \in DOMAIN plugin : \E s \in TwoStats : Done(i, s)
  \/ \E i \in DOMAIN plugin : Invalid(i)

SpecTwo == InitTwo /\ [][NextTwo]_vars

\* One instance, with or without onErrors, on a compiler that hands out
\* single-target and multi-target stats; clean, failing and warning compilations.
FrameCompilations ==
  {Clean,
   [errors |-> <<modA, modB>>, warnings |-> <<lintA>>],
   [errors |-> <<>>,           warnings |-> <<lintA>>]}

FrameStats == TwoStats \cup MainStats

InitFrame == InitOver({"p1"}, OnErrorsOptions, {<<>>})

NextFrame ==
  \/ \E i \in DOMAIN plugin : Apply(i)
  \/ \E i \in DOMAIN plugin : \E c \in FrameCompilations : AfterCompile(i, c, MaxRebuilds)
  \/ \E i \in DOMAIN plugin : \E s \in FrameStats : Done(i, s)
  \/ \E i \in DOMAIN plugin : Invalid(i)

SpecFrame == InitFrame /\ [][NextFrame]_vars

\* getMaxSeverityErrors applied to a list of enriched errors.
Enriched == [name : {"generic"}, message : {"m1", "m2"}, severity : 0..MaxSeverity]

SelectTop ==
  /\ lastEvent.event = "none"
  /\ ret' = getMaxSeverityErrors(arg)
  /\ lastEvent' = [lastEvent EXCEPT !.event = "getMaxSeverityErrors"]
  /\ UNCHANGED <<options, plugin, hooks, seenEnds, solo, arg>>

InitSelect == InitOver({"p1"}, {EmptyObject}, SeqsUpTo(Enriched, MaxLen))

SpecSelect == InitSelect /\ [][SelectTop]_vars

\* extractErrorsFromStats applied to a compilation.
RawSmall == {[message |-> "m1", shape |-> "syntax"],
             [message |-> "m1", shape |-> "lint"],
             [message |-> "m2", shape |-> "lint"]}

Extract ==
  /\ lastEvent.event = "none"
  /\ ret' = extractErrorsFromStats(NoStats, arg.type, arg.compilation)
  /\ lastEvent' = [lastEvent EXCEPT !.event = "extractErrorsFromStats"]
  /\ UNCHANGED <<options, plugin, hooks, seenEnds, solo, arg>>

InitExtract ==
  InitOver({"p1"}, {EmptyObject},
           [type : {"errors", "warnings"},
            compilation : [errors : SeqsUpTo(RawSmall, MaxLen),
                           warnings : SeqsUpTo(RawSmall, MaxLen)]])

SpecExtract == InitExtract /\ [][Extract]_vars

(***************************************************************************)
(* Reading the latest event                                                *)
(***************************************************************************)
\* the runs of doneFn in the latest event, if it was a done event
DoneRuns == IF lastEvent.event = "done" THEN lastEvent.runs ELSE <<>>

HasErrors(run) == Len(run.compilation.errors) > 0

HasWarnings(run) == Len(run.compilation.warnings) > 0

IsSuccessRun(run) == ~HasErrors(run) /\ ~HasWarnings(run)

Count(calls, P(_)) == Cardinality({k \in 1..Len(calls) : P(calls[k])})

IsTitleOf(call, severity) == call.op = "title" /\ call.severity = severity

IsOp(call, op) == call.op = op

\* the calls of a run after the clearing of the console
Report(run) == SelectSeq(run.calls, LAMBDA c : c.op # "clearConsole")

Messages(errors) == {errors[k].message : k \in 1..Len(errors)}

\* the instance the latest event was delivered to
Actor == plugin[lastEvent.inst]

(***************************************************************************)
(* C1. A run of doneFn on a compilation with at least one error emits      *)
(* exactly one title of severity 'error', no warning title and no success  *)
(* title, however many warnings the compilation has; what it hands to      *)
(* onErrors and what it logs comes from the compilation's errors only.     *)
(***************************************************************************)
ErrorBranchExclusive ==
  \A k \in 1..Len(DoneRuns) :
    LET run == DoneRuns[k]
        errs == run.compilation.errors
        blocks == {render(classify(errs[j], Actor.transformers),
                          Actor.formatters, "error") : j \in 1..Len(errs)}
    IN  HasErrors(run) =>
          /\ Count(run.calls, LAMBDA c : IsTitleOf(c, "error")) = 1
          /\ Count(run.calls, LAMBDA c : IsOp(c, "title")) = 1
          /\ \A j \in 1..Len(run.calls) :
               LET c == run.calls[j]
               IN  /\ c.op = "onErrors" =>
                        c.severity = "error" /\ Messages(c.errors) \subseteq Messages(errs)
                   /\ c.op = "log" => c.text \in blocks
                   /\ c.op \in {"clearConsole", "title", "onErrors", "log"}

\* doneFn has run on a compilation with errors and warnings, onErrors configured
ErrorBranchWitness ==
  \E k \in 1..Len(DoneRuns) :
    /\ HasErrors(DoneRuns[k]) /\ HasWarnings(DoneRuns[k])
    /\ Actor.onErrors
    /\ Count(DoneRuns[k].calls, LAMBDA c : IsOp(c, "log")) > 0

(***************************************************************************)
(* What a report is expected to show, written out independently            *)
(***************************************************************************)
\* the branch doneFn takes on a compilation, and the list it reports
Branch(run) == IF HasErrors(run) THEN "error" ELSE "warning"

RawOf(run) ==
  IF HasErrors(run) THEN run.compilation.errors ELSE run.compilation.warnings

\* the first record of each message, in order
FirstOfEachMessage(errors) ==
  SelectSeq([k \in 1..Len(errors) |-> [at |-> k, e |-> errors[k]]],
            LAMBDA x : \A j \in 1..(x.at - 1) : errors[j].message # x.e.message)

\* the enriched records of a run at the greatest severity among them
TopOf(run) ==
  LET firsts == FirstOfEachMessage(RawOf(run))
      enriched == [k \in 1..Len(firsts) |-> classify(firsts[k].e, Actor.transformers)]
  IN  SelectSeq(enriched,
                LAMBDA e : \A k \in 1..Len(enriched) : enriched[k].severity <= e.severity)

ExpectedSubtitle(severity, n) ==
  IF severity = "error"
  THEN "Failed to compile with " \o ToString(n) \o (IF n = 1 THEN " error" ELSE " errors")
  ELSE "Compiled with " \o ToString(n) \o (IF n = 1 THEN " warning" ELSE " warnings")

\* the title call of a run (a run makes one)
TitleOf(run) == Report(run)[1]

OnErrorsOncePerReport ==
  /\ \A k \in 1..Len(DoneRuns) :
       LET run == DoneRuns[k]
           called == SelectSeq(run.calls, LAMBDA c : c.op = "onErrors")
       IN  IF IsSuccessRun(run) \/ ~Actor.onErrors
           THEN called = <<>>
           ELSE /\ Len(called) = 1
                /\ called[1].severity = Branch(run)
                /\ called[1].errors = TopOf(run)
                /\ TitleOf(run).subtitle =
                     ExpectedSubtitle(called[1].severity, Len(called[1].errors))
  /\ lastEvent.event = "invalid" =>
       \A k \in 1..Len(lastEvent.runs) :
         Count(lastEvent.runs[k].calls, LAMBDA c : IsOp(c, "onErrors")) = 0

\* a warning report that called onErrors with fewer records than the raw list
OnErrorsWitness ==
  \E k \in 1..Len(DoneRuns) :
    /\ Actor.onErrors
    /\ Branch(DoneRuns[k]) = "warning" /\ HasWarnings(DoneRuns[k])
    /\ \E j \in 1..Len(DoneRuns[k].calls) :
         /\ DoneRuns[k].calls[j].op = "onErrors"
         /\ Len(DoneRuns[k].calls[j].errors) < Len(RawOf(DoneRuns[k]))

ExpectedSuccess(info, time) ==
  LET messages == IF Has(info, "messages") THEN info.messages ELSE <<>>
      notes == IF Has(info, "notes") THEN info.notes ELSE <<>>
  IN  <<[op |-> "title", severity |-> "success", title |-> "DONE",
         subtitle |-> "Compiled successfully in " \o ToString(time) \o "ms"]>>
      \o [k \in 1..Len(messages) |-> [op |-> "info", text |-> messages[k]]]
      \o (IF Has(info, "notes") THEN <<[op |-> "log", text |-> ""]>> ELSE <<>>)
      \o [k \in 1..Len(notes) |-> [op |-> "note", text |-> notes[k]]]

ConfiguredInfo ==
  IF Has(options[lastEvent.inst], "compilationSuccessInfo")
  THEN options[lastEvent.inst].compilationSuccessInfo ELSE EmptyObject

(***************************************************************************)
(* C9. A run of doneFn on a compilation without errors and warnings emits  *)
(* exactly the success report: the title 'DONE  Compiled successfully in   *)
(* <time>ms', then the configured messages in order, then, if notes are    *)
(* configured, a blank line and the notes in order; no other title.        *)
(***************************************************************************)
SuccessReportExact ==
  \A k \in 1..Len(DoneRuns) :
    IsSuccessRun(DoneRuns[k]) =>
      /\ \E time \in 0..MaxTime : Report(DoneRuns[k]) = ExpectedSuccess(ConfiguredInfo, time)
      /\ ~isMultiStats(lastEvent.stats) =>
           Report(DoneRuns[k]) =
             ExpectedSuccess(ConfiguredInfo,
                             lastEvent.stats.endTime - lastEvent.stats.startTime)
      /\ TitleLine(TitleOf(DoneRuns[k])) \in
           {"DONE  Compiled successfully in " \o ToString(t) \o "ms" : t \in 0..MaxTime}

\* a success report with a message and two notes configured
SuccessWitness ==
  \E k \in 1..Len(DoneRuns) :
    /\ IsSuccessRun(DoneRuns[k])
    /\ Has(ConfiguredInfo, "messages") /\ Has(ConfiguredInfo, "notes")
    /\ Len(Report(DoneRuns[k])) = 5
    /\ lastEvent.stats.endTime - lastEvent.stats.startTime > 0

(***************************************************************************)
(* C10. clearConsole is on when the option is omitted. When it is on,      *)
(* every run of a done or invalid handler clears the console first, before *)
(* any other call, and clears it once; when the option is false no handler *)
(* ever clears the console.                                                *)
(***************************************************************************)
ClearConsoleFirst ==
  /\ \A i \in DOMAIN plugin :
       plugin[i].shouldClearConsole =
         (IF Has(options[i], "clearConsole") THEN options[i].clearConsole ELSE TRUE)
  /\ lastEvent.event \in {"done", "invalid"} =>
       /\ Len(lastEvent.runs) > 0
       /\ \A k \in 1..Len(lastEvent.runs) :
            LET calls == lastEvent.runs[k].calls
                opts == options[lastEvent.inst]
            IN  IF Has(opts, "clearConsole") /\ ~opts.clearConsole
                THEN Count(calls, LAMBDA c : IsOp(c, "clearConsole")) = 0
                ELSE /\ Len(calls) > 1
                     /\ calls[1].op = "clearConsole"
                     /\ Count(calls, LAMBDA c : IsOp(c, "clearConsole")) = 1

\* a done event handled by an instance constructed without the option
ClearConsoleWitness ==
  /\ lastEvent.event = "done"
  /\ ~Has(options[lastEvent.inst], "clearConsole")
  /\ Len(lastEvent.runs) > 0
  /\ lastEvent.runs[1].calls[1].op = "clearConsole"

GreatestSeverity(errors) ==
  CHOOSE m \in {errors[k].severity : k \in 1..Len(errors)} :
    \A k \in 1..Len(errors) : errors[k].severity <= m

(***************************************************************************)
(* C2. getMaxSeverityErrors: on a non-empty list the result is non-empty,  *)
(* every record of it has the greatest severity of the input, and it is    *)
(* the records of the input at that severity, in their order; on the empty *)
(* list the result is empty.                                               *)
(***************************************************************************)
SelectTopIsMax ==
  lastEvent.event = "getMaxSeverityErrors" =>
    IF arg = <<>> THEN ret = <<>>
    ELSE /\ ret # <<>>
         /\ \A k \in 1..Len(ret) : ret[k].severity = GreatestSeverity(arg)
         /\ IsSubsequence(ret, arg)
         /\ Len(ret) =
              Cardinality({k \in 1..Len(arg) : arg[k].severity = GreatestSeverity(arg)})

\* applied to three records of two severities, two of them at the greatest
SelectTopWitness ==
  /\ lastEvent.event = "getMaxSeverityErrors"
  /\ Len(arg) = 3 /\ Len(ret) = 2
  /\ arg[1].severity < arg[2].severity
  /\ ret[1].message # ret[2].message

ExtractInput ==
  IF arg.type = "warnings" THEN arg.compilation.warnings ELSE arg.compilation.errors

FirstIndex(errors, message) ==
  CHOOSE k \in 1..Len(errors) :
    /\ errors[k].message = message
    /\ \A j \in 1..(k - 1) : errors[j].message # message

(***************************************************************************)
(* C7. extractErrorsFromStats: the result is a subsequence of the          *)
(* compilation's list, no longer than it, holds for each message of the    *)
(* list its first record and no other record, so no two records of it      *)
(* share a message; the empty list gives the empty result.                 *)
(***************************************************************************)
ExtractDedupes ==
  lastEvent.event = "extractErrorsFromStats" =>
    /\ IsSubsequence(ret, ExtractInput)
    /\ Len(ret) <= Len(ExtractInput)
    /\ \A j, k \in 1..Len(ret) : j # k => ret[j].message # ret[k].message
    /\ Messages(ret) = Messages(ExtractInput)
    /\ \A k \in 1..Len(ret) :
         ret[k] = ExtractInput[FirstIndex(ExtractInput, ret[k].message)]
    /\ ExtractInput = <<>> => ret = <<>>

\* a list whose second and third records repeat the message of the first
ExtractWitness ==
  /\ lastEvent.event = "extractErrorsFromStats"
  /\ arg.type = "warnings"
  /\ Len(ExtractInput) = 3 /\ Len(ret) = 1
  /\ ExtractInput[2] # ExtractInput[1]

RECURSIVE ClaimedTime(_, _, _)
ClaimedTime(previousEnds, subs, index) ==
  IF index >= Len(subs) THEN 0
  ELSE Max(IF Has(previousEnds, index) /\ previousEnds[index] = subs[index + 1].endTime
           THEN 0
           ELSE subs[index + 1].endTime - subs[index + 1].startTime,
           ClaimedTime(previousEnds, subs, index + 1))

(***************************************************************************)
(* C5. As claimed: the time a success title shows for multi-target stats   *)
(* is the greatest endTime - startTime over the sub-results, a sub-result  *)
(* whose end timestamp is the one the previous report of the instance had  *)
(* at its index counting as zero.                                          *)
(***************************************************************************)
ElapsedSkipsUnchanged ==
  [][(lastEvent'.event = "done" /\ isMultiStats(lastEvent'.stats)) =>
       \A k \in 1..Len(lastEvent'.runs) :
         LET run == lastEvent'.runs[k]
             \* the report before run k: the one before it in this event, on
             \* the same stats, or the last one of the previous done event
             previousEnds == IF k > 1 THEN endsOf(lastEvent'.stats)
                                      ELSE seenEnds[lastEvent'.inst]
         IN  IsSuccessRun(run) =>
               Report(run)[1].subtitle =
                 "Compiled successfully in "
                   \o ToString(ClaimedTime(previousEnds, lastEvent'.stats.stats, 0))
                   \o "ms"]_vars

(***************************************************************************)
(* C6. previousEndTimes belongs to the instance: an event delivered to one *)
(* instance leaves previousEndTimes of every other instance as it was, and *)
(* what an instance holds and reports is what it would hold and report had *)
(* the other instance's events never happened.                             *)
(***************************************************************************)
InstancesIsolated ==
  [][/\ \A j \in DOMAIN plugin :
          j # lastEvent'.inst =>
            plugin'[j].previousEndTimes = plugin[j].previousEndTimes
     /\ \A j \in DOMAIN plugin : plugin'[j].previousEndTimes = solo'[j]
     /\ lastEvent'.event = "done" =>
          LET i == lastEvent'.inst
              alone == callDoneTaps([plugin[i] EXCEPT !.previousEndTimes = solo[i]],
                                    lastEvent'.stats, hooks[i].done, <<>>)
          IN  lastEvent'.runs = alone.runs]_vars

\* both instances have reported, on different stats, and hold different maps
IsolatedWitness ==
  /\ lastEvent.event = "done"
  /\ lastEvent.inst = "p2"
  /\ plugin["p1"].previousEndTimes # EmptyObject
  /\ plugin["p2"].previousEndTimes # EmptyObject
  /\ plugin["p1"].previousEndTimes # plugin["p2"].previousEndTimes

(***************************************************************************)
(* C11. The transformers and the formatters of an instance are the         *)
(* built-in ones in their fixed order followed by the caller's additional  *)
(* ones in the caller's order, from construction on: no apply,             *)
(* afterCompile, done or invalid event changes their contents or order.    *)
(***************************************************************************)
ChainsFixed ==
  \A i \in DOMAIN plugin :
    /\ plugin[i].transformers =
         <<"babelSyntax", "moduleNotFound", "esLintError">>
         \o (IF Has(options[i], "additionalTransformers")
             THEN options[i].additionalTransformers ELSE <<>>)
    /\ plugin[i].formatters =
         <<"moduleNotFound", "eslintError", "defaultError">>
         \o (IF Has(options[i], "additionalFormatters")
             THEN options[i].additionalFormatters ELSE <<>>)

\* an instance given two transformers and two formatters has handled the done
\* event of its second compilation and reported errors
ChainsWitness ==
  /\ lastEvent.event = "done"
  /\ Len(lastEvent.runs) = 2
  /\ HasErrors(lastEvent.runs[2])
  /\ Has(options[lastEvent.inst], "additionalTransformers")
  /\ Len(options[lastEvent.inst].additionalTransformers) = 2
  /\ Len(Actor.transformers) = 5 /\ Len(Actor.formatters) = 5
  /\ Actor.transformers[4] = "t2" /\ Actor.formatters[5] = "f1"

(***************************************************************************)
(* C12. As claimed: an instance holds at most one done subscription on its *)
(* compiler, whatever afterCompile and done events came, and each done     *)
(* event produces exactly one report.                                      *)
(***************************************************************************)
OneDoneSubscription ==
  /\ \A i \in DOMAIN hooks : Len(hooks[i].done) <= 1
  /\ lastEvent.event = "done" => Len(lastEvent.runs) = 1

(***************************************************************************)
(* C14. As claimed: every report of a done event is computed from the      *)
(* compilation of the latest afterCompile before that event.               *)
(***************************************************************************)
ReportsLatestCompilation ==
  lastEvent.event = "done" =>
    LET taps == hooks[lastEvent.inst].done
    IN  \A k \in 1..Len(lastEvent.runs) :
          lastEvent.runs[k].compilation = taps[Len(taps)]

\* a compilation without errors and warnings: doneFn reports success on it
IsClean(compilation) == compilation.errors = <<>> /\ compilation.warnings = <<>>

(***************************************************************************)
(* C13. Within a done event, two runs of doneFn that go through            *)
(* displayErrors on the same compilation (the same raw input, the same     *)
(* instance) make identical calls: the same title, the same onErrors       *)
(* arguments, the same logged blocks, whatever ran between them. The runs  *)
(* through displayErrors leave the instance as it was: its transformers    *)
(* and formatters never change, and previousEndTimes ends the event as if  *)
(* only the success runs had been made.                                    *)
(***************************************************************************)
DisplayErrorsRepeatable ==
  [][lastEvent'.event = "done" =>
       LET i == lastEvent'.inst
           runs == lastEvent'.runs
       IN  /\ \A j, k \in 1..Len(runs) :
                (~IsSuccessRun(runs[j]) /\ runs[j].compilation = runs[k].compilation)
                  => runs[j].calls = runs[k].calls
           /\ plugin'[i].transformers = plugin[i].transformers
           /\ plugin'[i].formatters = plugin[i].formatters
           /\ plugin'[i].previousEndTimes =
                callDoneTaps(plugin[i], lastEvent'.stats,
                             SelectSeq(hooks[i].done, IsClean), <<>>).previousEndTimes
           /\ (\A k \in 1..Len(runs) : ~IsSuccessRun(runs[k])) => plugin' = plugin
    ]_vars

\* a done event on multi-target stats ran displayErrors twice on one failing
\* compilation, with a success run between the two, onErrors configured, and
\* end timestamps were on record
RepeatableWitness ==
  /\ lastEvent.event = "done"
  /\ isMultiStats(lastEvent.stats)
  /\ Len(lastEvent.runs) = 3
  /\ HasErrors(lastEvent.runs[1])
  /\ IsSuccessRun(lastEvent.runs[2])
  /\ lastEvent.runs[3].compilation = lastEvent.runs[1].compilation
  /\ Actor.onErrors
  /\ Count(lastEvent.runs[3].calls, LAMBDA c : IsOp(c, "onErrors")) = 1
  /\ Count(lastEvent.runs[3].calls, LAMBDA c : IsOp(c, "log")) = 2
  /\ Actor.previousEndTimes # EmptyObject

\* previousEndTimes[k], or -1 where nothing is on record
StoredEnd(previousEndTimes, k) ==
  IF Has(previousEndTimes, k) THEN previousEndTimes[k] ELSE -1

\* a done event writes a success report if one of its taps holds a clean compilation
WritesSuccess(taps) == \E k \in 1..Len(taps) : IsClean(taps[k])

(***************************************************************************)
(* C15. previousEndTimes changes only in a done event that writes a        *)
(* success report on multi-target stats, and then only at the indexes of   *)
(* the sub-results whose end timestamp differs from the stored one, which  *)
(* take that sub-result's endTime. Error reports, warning reports, invalid *)
(* events (and apply, afterCompile) and success reports on single-target   *)
(* stats leave previousEndTimes as it was.                                 *)
(***************************************************************************)
EndTimesFrame ==
  [][\A i \in DOMAIN plugin :
       LET before == plugin[i].previousEndTimes
           after == plugin'[i].previousEndTimes
           stats == lastEvent'.stats
           recording == /\ lastEvent'.event = "done"
                        /\ lastEvent'.inst = i
                        /\ isMultiStats(stats)
                        /\ WritesSuccess(hooks[i].done)
       IN  /\ DOMAIN before \subseteq DOMAIN after
           /\ \A k \in DOMAIN after :
                StoredEnd(before, k) # after[k] =>
                  /\ recording
                  /\ k \in 0..(Len(stats.stats) - 1)
                  /\ after[k] = stats.stats[k + 1].endTime
           /\ recording =>
                \A k \in 0..(Len(stats.stats) - 1) :
                  Has(after, k) /\ after[k] = stats.stats[k + 1].endTime
           /\ ~recording => after = before
    ]_vars

\* a done event on multi-target stats wrote a warning report, then a success
\* report that put both end timestamps, different ones, on record
EndTimesWitness ==
  /\ lastEvent.event = "done"
  /\ isMultiStats(lastEvent.stats)
  /\ Len(lastEvent.runs) = 2
  /\ HasWarnings(lastEvent.runs[1]) /\ ~HasErrors(lastEvent.runs[1])
  /\ IsSuccessRun(lastEvent.runs[2])
  /\ DOMAIN Actor.previousEndTimes = {0, 1}
  /\ Actor.previousEndTimes[0] # Actor.previousEndTimes[1]

\* the blocks of a run, in the order of the records the severity selection kept
BlocksOf(run) ==
  [k \in 1..Len(TopOf(run)) |->
     [op |-> "log", text |-> render(TopOf(run)[k], Actor.formatters, Branch(run))]]

(***************************************************************************)
(* C16. In an error or warning report the order of the output is fixed:    *)
(* the title comes first, then the call of onErrors if one is configured,  *)
(* then the rendered blocks one by one in the order the formatter chain    *)
(* returned them (the order of the records kept by the severity            *)
(* selection); the last block ends the run, nothing is written after it.   *)
(***************************************************************************)
ReportOrderFixed ==
  \A k \in 1..Len(DoneRuns) :
    LET run == DoneRuns[k]
        rep == Report(run)
        first == IF Actor.onErrors THEN 3 ELSE 2
    IN  ~IsSuccessRun(run) =>
          /\ Len(rep) = first - 1 + Len(TopOf(run))
          /\ rep[1].op = "title" /\ rep[1].title = toUpperCase[Branch(run)]
          /\ Actor.onErrors =>
               rep[2].op = "onErrors" /\ rep[2].errors = TopOf(run)
          /\ SubSeq(rep, first, Len(rep)) = BlocksOf(run)
          /\ run.calls[Len(run.calls)] = BlocksOf(run)[Len(TopOf(run))]

\* an error report with onErrors configured that wrote two different blocks
ReportOrderWitness ==
  \E k \in 1..Len(DoneRuns) :
    /\ HasErrors(DoneRuns[k])
    /\ Actor.onErrors
    /\ Len(Report(DoneRuns[k])) = 4
    /\ Report(DoneRuns[k])[3].op = "log"
    /\ Report(DoneRuns[k])[3] # Report(DoneRuns[k])[4]

====
